---- MODULE Spec2Model ----
(***************************************************************************)
(* hexvar: the scan command (src/main.rs 55-287) and the replace command   *)
(* (src/main.rs 288-371), coupled by the two artifacts on disk,            *)
(* colours.css and colours_map.json.                                       *)
(*                                                                         *)
(* Text is a sequence of one-character strings, so that the regular        *)
(* expressions, the case folding and the substring counts of the source    *)
(* are computed character by character.                                    *)
(***************************************************************************)
EXTENDS Integers, Sequences, FiniteSets, TLC

(***************************************************************************)
(* Bounds of the model.                                                    *)
(***************************************************************************)
\* the number of target files matched by the glob patterns
NumFiles == 2
\* the number of colour tokens in the corpus of target files, when both
\* commands run
MaxPieces == 2
\* the number of colour tokens in the corpus, when only the scan runs
MaxScanPieces == 3

(***************************************************************************)
(* Characters and strings.                                                 *)
(***************************************************************************)
Range(s) == {s[i] : i \in 1..Len(s)}

\* [0-9a-fA-F] of the scanning regex
HexDigits ==
    {"0", "1", "2", "3", "4", "5", "6", "7", "8", "9",
     "a", "b", "c", "d", "e", "f", "A", "B", "C", "D", "E", "F"}

\* char::to_lowercase on the characters a text of the model can hold
LowerChar(c) ==
    CASE c = "A" -> "a" [] c = "B" -> "b" [] c = "C" -> "c"
      [] c = "D" -> "d" [] c = "E" -> "e" [] c = "F" -> "f"
      [] OTHER -> c

\* str::to_lowercase
to_lowercase(s) == [i \in 1..Len(s) |-> LowerChar(s[i])]

\* the value of one hex digit, as u8::from_str_radix(_, 16) reads it
DigitVal(c) ==
    CASE c = "0" -> 0 [] c = "1" -> 1 [] c = "2" -> 2 [] c = "3" -> 3
      [] c = "4" -> 4 [] c = "5" -> 5 [] c = "6" -> 6 [] c = "7" -> 7
      [] c = "8" -> 8 [] c = "9" -> 9
      [] LowerChar(c) = "a" -> 10 [] LowerChar(c) = "b" -> 11
      [] LowerChar(c) = "c" -> 12 [] LowerChar(c) = "d" -> 13
      [] LowerChar(c) = "e" -> 14 [] LowerChar(c) = "f" -> 15

\* str::trim_start_matches(c): every leading c is removed
RECURSIVE trim_start_matches(_, _)
trim_start_matches(s, c) ==
    IF Len(s) > 0 /\ s[1] = c THEN trim_start_matches(Tail(s), c) ELSE s

\* str::trim_end_matches(c): every trailing c is removed
RECURSIVE trim_end_matches(_, _)
trim_end_matches(s, c) ==
    IF Len(s) > 0 /\ s[Len(s)] = c
    THEN trim_end_matches(SubSeq(s, 1, Len(s) - 1), c)
    ELSE s

\* str::trim: white space removed at both ends
trim(s) == trim_end_matches(trim_start_matches(s, " "), " ")

\* whether pat occurs in s at position i, compared character by character
OccursAt(s, pat, i) ==
    /\ i + Len(pat) - 1 <= Len(s)
    /\ \A k \in 1..Len(pat) : s[i + k - 1] = pat[k]

\* whether the (lower-case) literal lit occurs in s at position i under (?i)
OccursAtNoCase(s, lit, i) ==
    /\ i + Len(lit) - 1 <= Len(s)
    /\ \A k \in 1..Len(lit) : LowerChar(s[i + k - 1]) = LowerChar(lit[k])

\* str::strip_prefix: the rest after the prefix, or the text itself unchanged
\* together with the flag that says whether the prefix was there
strip_prefix(s, pre) ==
    IF OccursAt(s, pre, 1)
    THEN [some |-> TRUE, rest |-> SubSeq(s, Len(pre) + 1, Len(s))]
    ELSE [some |-> FALSE, rest |-> s]

\* str::split_once(c): the parts before and after the first c
split_once(s, c) ==
    IF \E i \in 1..Len(s) : s[i] = c
    THEN LET i == CHOOSE i \in 1..Len(s) :
                     s[i] = c /\ \A j \in 1..(i - 1) : s[j] # c
         IN [some |-> TRUE, left |-> SubSeq(s, 1, i - 1),
             right |-> SubSeq(s, i + 1, Len(s))]
    ELSE [some |-> FALSE, left |-> s, right |-> <<>>]

\* the least position >= i of the set P of positions, 0 when there is none
NextAt(P, i) ==
    IF \E p \in P : p >= i
    THEN CHOOSE p \in P : p >= i /\ \A q \in P : q >= i => p <= q
    ELSE 0

\* str::matches(pat).count(): the non-overlapping occurrences, left to right;
\* P holds the positions where pat occurs
RECURSIVE CountFrom(_, _, _)
CountFrom(P, n, i) ==
    LET p == NextAt(P, i)
    IN IF p = 0 THEN 0 ELSE 1 + CountFrom(P, n, p + n)

matches_count(s, pat) ==
    CountFrom({i \in 1..Len(s) : OccursAt(s, pat, i)}, Len(pat), 1)

\* Regex::new("(?i)" + escape(lit)).replace_all(s, rep): every non-overlapping
\* occurrence of lit in any letter case, left to right, becomes rep; P holds
\* the positions where lit occurs
RECURSIVE ReplaceFrom(_, _, _, _, _)
ReplaceFrom(s, P, n, rep, i) ==
    LET p == NextAt(P, i)
    IN IF p = 0 THEN SubSeq(s, i, Len(s))
       ELSE SubSeq(s, i, p - 1) \o rep \o ReplaceFrom(s, P, n, rep, p + n)

replace_all(s, lit, rep) ==
    ReplaceFrom(s, {i \in 1..Len(s) : OccursAtNoCase(s, lit, i)}, Len(lit), rep, 1)

\* str::replace('_', "-")
replace_underscore(s) == [i \in 1..Len(s) |-> IF s[i] = "_" THEN "-" ELSE s[i]]

\* the arbitrary iteration orders of a HashMap with key set S
Orders(S) ==
    {o \in [1..Cardinality(S) -> S] : \A i, j \in DOMAIN o : o[i] = o[j] => i = j}

RECURSIVE Concat(_)
Concat(ss) == IF ss = <<>> THEN <<>> ELSE Head(ss) \o Concat(Tail(ss))

(***************************************************************************)
(* The scanning regex, #(?:[0-9a-fA-F]{8}|[0-9a-fA-F]{6}|[0-9a-fA-F]{3}).  *)
(***************************************************************************)
HexRun(s, i, n) ==
    /\ i + n <= Len(s)
    /\ \A k \in 1..n : s[i + k] \in HexDigits

\* the length of the match that starts at i, 0 when none does: the
\* alternation takes 8 digits before 6 before 3
MatchLenAt(s, i) ==
    IF s[i] # "#" THEN 0
    ELSE IF HexRun(s, i, 8) THEN 9
    ELSE IF HexRun(s, i, 6) THEN 7
    ELSE IF HexRun(s, i, 3) THEN 4
    ELSE 0

\* re.find_iter(content): the matches, left to right, non-overlapping; P
\* holds the positions where a match can start
RECURSIVE FindFrom(_, _, _)
FindFrom(s, P, i) ==
    LET p == NextAt(P, i)
    IN IF p = 0 THEN <<>>
       ELSE <<SubSeq(s, p, p + MatchLenAt(s, p) - 1)>>
            \o FindFrom(s, P, p + MatchLenAt(s, p))

find_iter(s) == FindFrom(s, {i \in 1..Len(s) : MatchLenAt(s, i) > 0}, 1)

(***************************************************************************)
(* Hex parsing and the perceptual colour space.                            *)
(***************************************************************************)
NoRgb == <<>>

\* two hex digits as a u8
Byte(hi, lo) == 16 * DigitVal(hi) + DigitVal(lo)

\* the channels the scan computes for a literal (hex_lab precompute): a
\* literal of 3 digits doubles each digit, one of 6 reads pairs, and any
\* other length is passed over (the `_ => continue` arm)
ScanRgb(hex) ==
    LET rgb == trim_start_matches(hex, "#")
    IN CASE Len(rgb) = 3 ->
              <<Byte(rgb[1], rgb[1]), Byte(rgb[2], rgb[2]), Byte(rgb[3], rgb[3])>>
         [] Len(rgb) = 6 ->
              <<Byte(rgb[1], rgb[2]), Byte(rgb[3], rgb[4]), Byte(rgb[5], rgb[6])>>
         [] OTHER -> NoRgb

\* fn hex_to_rgb of the name fallback: Some((r, g, b)) or None
hex_to_rgb(hex) ==
    LET h == trim_start_matches(hex, "#")
    IN CASE Len(h) = 3 ->
              <<Byte(h[1], h[1]), Byte(h[2], h[2]), Byte(h[3], h[3])>>
         [] Len(h) = 6 ->
              <<Byte(h[1], h[2]), Byte(h[3], h[4]), Byte(h[5], h[6])>>
         [] OTHER -> NoRgb

\* Lab::from_color(Srgb::new(r/255, g/255, b/255)) in hundredths of a unit
\* (sRGB transfer function, D65 white point), tabulated for the colours the
\* corpus of the model can hold
LabTable ==
    (<<255, 0, 0>> :> <<5324, 8009, 6720>>)
    @@ (<<240, 24, 24>> :> <<5098, 7450, 5744>>)
    @@ (<<255, 0, 17>> :> <<5328, 8021, 6287>>)
    @@ (<<0, 255, 0>> :> <<8773, -8618, 8318>>)

LabOf(rgb) == LabTable[rgb]

\* let delta_e_threshold = 10.0
delta_e_threshold == 10

\* the square of lab.delta_e(other), the Euclidean distance in Lab, in the
\* units of LabTable
DeltaESq(x, y) ==
    (x[1] - y[1]) * (x[1] - y[1]) + (x[2] - y[2]) * (x[2] - y[2])
    + (x[3] - y[3]) * (x[3] - y[3])

\* lab.delta_e(*canon_lab) < delta_e_threshold
Within(x, y) ==
    DeltaESq(x, y) < delta_e_threshold * delta_e_threshold * (100 * 100)

\* a mutation of FirstMatch: only the newest cluster is compared
FirstMatchNewestOnly(lab, cl) ==
    IF Len(cl) > 0 /\ Within(lab, cl[Len(cl)].lab) THEN Len(cl) ELSE 0

\* the loop over the clusters: the index of the first cluster whose
\* canonical colour is within the threshold, 0 when there is none
FirstMatch(lab, cl) ==
    IF \E i \in 1..Len(cl) : Within(lab, cl[i].lab)
    THEN CHOOSE i \in 1..Len(cl) :
             /\ Within(lab, cl[i].lab)
             /\ \A j \in 1..(i - 1) : ~Within(lab, cl[j].lab)
    ELSE 0

(***************************************************************************)
(* Name resolution.                                                        *)
(***************************************************************************)
\* css_color_names::CSS_COLOR_NAMES: (name, hex) pairs in table order
CSS_COLOR_NAMES ==
    << <<(<<"b", "l", "a", "c", "k">>), (<<"#", "0", "0", "0", "0", "0", "0">>)>>,
       <<(<<"w", "h", "i", "t", "e">>), (<<"#", "f", "f", "f", "f", "f", "f">>)>>,
       <<(<<"r", "e", "d">>), (<<"#", "f", "f", "0", "0", "0", "0">>)>>,
       <<(<<"l", "i", "m", "e">>), (<<"#", "0", "0", "f", "f", "0", "0">>)>>,
       <<(<<"c", "r", "i", "m", "s", "o", "n">>),
         (<<"#", "d", "c", "1", "4", "3", "c">>)>>,
       <<(<<"o", "r", "a", "n", "g", "e", "_", "r", "e", "d">>),
         (<<"#", "f", "f", "4", "5", "0", "0">>)>> >>

ColorPrefix == <<"-", "-", "c", "o", "l", "o", "r", "-">>

\* format!("--color-{}", name.replace('_', "-"))
VarOfName(name) == ColorPrefix \o replace_underscore(name)

\* the squared Euclidean distance of two RGB triples
RgbDist(p, q) ==
    (p[1] - q[1]) * (p[1] - q[1]) + (p[2] - q[2]) * (p[2] - q[2])
    + (p[3] - q[3]) * (p[3] - q[3])

\* the variable of a canonical literal: the first table entry whose hex is
\* the literal in any letter case, otherwise the first entry at the minimum
\* RGB distance, otherwise --color-<hexdigits>
ResolveVar(canon_hex) ==
    LET T == CSS_COLOR_NAMES
        exact == {i \in 1..Len(T) : to_lowercase(T[i][2]) = to_lowercase(canon_hex)}
        rgb == hex_to_rgb(canon_hex)
        ok == {i \in 1..Len(T) : hex_to_rgb(T[i][2]) # NoRgb}
        fallback == ColorPrefix \o to_lowercase(trim_start_matches(canon_hex, "#"))
    IN IF exact # {}
       THEN VarOfName(T[CHOOSE i \in exact : \A j \in exact : i <= j][1])
       ELSE IF rgb = NoRgb THEN fallback
       ELSE IF ok = {} THEN fallback
       ELSE LET d(i) == RgbDist(rgb, hex_to_rgb(T[i][2]))
                best == CHOOSE i \in ok :
                            \A j \in ok : d(i) < d(j) \/ (d(i) = d(j) /\ i <= j)
            IN VarOfName(T[best][1])

(***************************************************************************)
(* The canonical stylesheet, as text lines.                                *)
(***************************************************************************)
\* format!("    {}: {};", var, canon_hex)
CssLine(var, canon_hex) ==
    <<" ", " ", " ", " ">> \o var \o <<":", " ">> \o canon_hex \o <<";">>

\* ":root {" ... "}" around one line per cluster, in cluster-creation order
CssText(cl) ==
    <<(<<":", "r", "o", "o", "t", " ", "{">>)>>
    \o [i \in 1..Len(cl) |-> CssLine(ResolveVar(cl[i].hex), cl[i].hex)]
    \o <<(<<"}">>)>>

\* one line of colours.css as the replace command reads it: the pair
\* (lower-cased hex, variable) of a definition line, or no pair
ParseCssLine(line) ==
    LET p == strip_prefix(trim(line), ColorPrefix)
        sp == split_once(p.rest, ":")
    IN IF p.some /\ sp.some
       THEN [some |-> TRUE,
             var |-> ColorPrefix \o trim(sp.left),
             hex |-> to_lowercase(trim_end_matches(trim(sp.right), ";"))]
       ELSE [some |-> FALSE, var |-> <<>>, hex |-> <<>>]

\* canon_to_var: a later line of the stylesheet overwrites an earlier one
\* with the same hex
canon_to_var_of(css) ==
    LET P == [i \in 1..Len(css) |-> ParseCssLine(css[i])]
        defs == {i \in 1..Len(css) : P[i].some}
    IN [h \in {P[i].hex : i \in defs} |->
          P[CHOOSE i \in defs : P[i].hex = h
                                /\ \A j \in defs : P[j].hex = h => j <= i].var]

(***************************************************************************)
(* The corpus: the colour tokens the target files can hold.                *)
(*                                                                         *)
(*   #ff0000     the named colour red                                      *)
(*   #f01818     delta E 11.5 from #ff0000; nearest named colour red       *)
(*   #F01        (255, 0, 17): delta E 4.3 from #ff0000, 8.2 from #f01818; *)
(*               its text is the start of the two tokens around it         *)
(*   #F0181812   8 digits                                                  *)
(*   #00FF00     the named colour lime, far from all the others            *)
(***************************************************************************)
Pieces ==
    << <<"#", "f", "f", "0", "0", "0", "0">>,
       <<"#", "f", "0", "1", "8", "1", "8">>,
       <<"#", "F", "0", "1">>,
       <<"#", "F", "0", "1", "8", "1", "8", "1", "2">>,
       <<"#", "0", "0", "F", "F", "0", "0">> >>

\* the tokens of a corpus, by index into Pieces, in non-decreasing order
Corpora(max) ==
    UNION {{c \in [1..n -> 1..Len(Pieces)] :
               \A i \in 1..(n - 1) : c[i] <= c[i + 1]} : n \in 0..max}

\* the ways to cut a corpus of n tokens into NumFiles consecutive files:
\* cut[f] is the number of tokens in the files before f + 1
Cuts(n) ==
    {cut \in [0..NumFiles -> 0..n] :
        /\ cut[0] = 0
        /\ cut[NumFiles] = n
        /\ \A f \in 1..NumFiles : cut[f - 1] <= cut[f]}

\* the text of a file: each of its tokens followed by a semicolon
FileText(c, from, to) ==
    Concat([i \in 1..(to - from) |-> Pieces[c[from + i]] \o <<";">>])

(***************************************************************************)
(* State.                                                                  *)
(***************************************************************************)
VARIABLES
    files,               \* the target files on disk: file -> text
    artifacts,           \* whether colours.css and colours_map.json exist
    colours_css,         \* colours.css, as lines
    colours_map,         \* colours_map.json: canonical -> set of members
    report,              \* scan: the JSON report printed, literal -> count
    pc,                  \* where the running command is; "idle" between runs
    counts,              \* scan: literal -> occurrences
    visited,             \* scan: the keys of counts the clustering loop has passed
    clusters,            \* scan: (canonical hex, Lab) in creation order
    hex_to_canonical,    \* scan: literal -> canonical
    hex_to_var,          \* replace: lower-cased literal -> variable
    file_idx,            \* replace: the next file of the glob loop
    total_replacements,  \* replace
    files_changed,       \* replace
    stdout               \* replace: the lines printed by the run

vars ==
    <<files, artifacts, colours_css, colours_map, report, pc, counts, visited,
      clusters, hex_to_canonical, hex_to_var, file_idx, total_replacements,
      files_changed, stdout>>

scanVars == <<counts, visited, clusters, hex_to_canonical>>
replaceVars == <<hex_to_var, file_idx, total_replacements, files_changed, stdout>>
diskVars == <<files, artifacts, colours_css, colours_map>>

\* nothing has run yet: the target files hold a corpus of at most max tokens
InitWith(max) ==
    /\ \E c \in Corpora(max) : \E cut \in Cuts(Len(c)) :
           files = [f \in 1..NumFiles |-> FileText(c, cut[f - 1], cut[f])]
    /\ artifacts = FALSE
    /\ colours_css = <<>>
    /\ colours_map = <<>>
    /\ report = <<>>
    /\ pc = "idle"
    /\ counts = <<>>
    /\ visited = <<>>
    /\ clusters = <<>>
    /\ hex_to_canonical = <<>>
    /\ hex_to_var = <<>>
    /\ file_idx = 1
    /\ total_replacements = 0
    /\ files_changed = 0
    /\ stdout = <<>>

Init == InitWith(MaxPieces)

InitScan == InitWith(MaxScanPieces)

(***************************************************************************)
(* The scan command.                                                       *)
(***************************************************************************)
\* the tally of the matches of every file
CountHexes(fs) ==
    LET all == Concat([f \in 1..NumFiles |-> find_iter(fs[f])])
    IN [h \in Range(all) |-> Cardinality({i \in 1..Len(all) : all[i] = h})]

\* a scan run starts: the files are read and tallied; with --css-vars the
\* clustering follows
ScanFiles ==
    /\ pc = "idle"
    /\ counts' = CountHexes(files)
    /\ \E css_vars \in BOOLEAN : pc' = IF css_vars THEN "cluster" ELSE "report"
    /\ visited' = <<>>
    /\ clusters' = <<>>
    /\ hex_to_canonical' = <<>>
    /\ report' = <<>>
    /\ stdout' = <<>>
    /\ UNCHANGED <<diskVars, hex_to_var, file_idx, total_replacements,
                   files_changed>>

\* one turn of the clustering loop, on the next key of counts in the map's
\* arbitrary iteration order
ClusterStep ==
    /\ pc = "cluster"
    /\ \E hex \in DOMAIN counts \ Range(visited) :
         /\ visited' = Append(visited, hex)
         /\ IF ScanRgb(hex) = NoRgb
            THEN UNCHANGED <<clusters, hex_to_canonical>>
            ELSE LET lab == LabOf(ScanRgb(hex))
                     m == FirstMatch(lab, clusters)
                 IN IF m # 0
                    THEN /\ hex_to_canonical' = (hex :> clusters[m].hex) @@ hex_to_canonical
                         /\ UNCHANGED clusters
                    ELSE /\ clusters' = Append(clusters, [hex |-> hex, lab |-> lab])
                         /\ hex_to_canonical' = (hex :> hex) @@ hex_to_canonical
    /\ UNCHANGED <<diskVars, report, pc, counts, replaceVars>>

\* canonical_map: canonical -> the literals assigned to it
canonical_map_of(h2c) ==
    [c \in {h2c[h] : h \in DOMAIN h2c} |-> {h \in DOMAIN h2c : h2c[h] = c}]

\* after the loop: the stylesheet (--css-vars colours.css, the name the
\* replace command reads) and the mapping file are written
EmitArtifacts ==
    /\ pc = "cluster"
    /\ Range(visited) = DOMAIN counts
    /\ colours_css' = CssText(clusters)
    /\ colours_map' = canonical_map_of(hex_to_canonical)
    /\ artifacts' = TRUE
    /\ pc' = "report"
    /\ UNCHANGED <<files, report, scanVars, replaceVars>>

\* the JSON report is printed and the run ends, and its locals with it
Report ==
    /\ pc = "report"
    /\ report' = counts
    /\ pc' = "idle"
    /\ counts' = <<>>
    /\ visited' = <<>>
    /\ clusters' = <<>>
    /\ hex_to_canonical' = <<>>
    /\ UNCHANGED <<diskVars, replaceVars>>

(***************************************************************************)
(* The replace command.                                                    *)
(***************************************************************************)
\* the stylesheet key of a canonical of the mapping file
css_hex_of(canon) == <<"#">> \o to_lowercase(trim_start_matches(canon, "#"))

\* hex_to_var: every member, lower-cased, to the variable of its canonical
hex_to_var_of(map, c2v) ==
    LET keys == {to_lowercase(h) : h \in UNION {map[c] : c \in DOMAIN map}}
    IN [k \in keys |->
          c2v[css_hex_of(CHOOSE c \in DOMAIN map :
                             \E h \in map[c] : to_lowercase(h) = k)]]

\* format!("var({})", var)
VarRef(var) == <<"v", "a", "r", "(">> \o var \o <<")">>

\* the loop over hex_to_var in the order ord, from its i-th literal on:
\* the text and the count it ends with
RECURSIVE ApplyFrom(_, _, _, _, _)
ApplyFrom(replaced, file_replacements, hv, ord, i) ==
    IF i > Len(ord) THEN [text |-> replaced, n |-> file_replacements]
    ELSE LET hex == ord[i]
             new_replaced == replace_all(replaced, hex, VarRef(hv[hex]))
             count == matches_count(new_replaced, VarRef(hv[hex]))
         IN ApplyFrom(new_replaced,
                      IF count > matches_count(replaced, hex)
                      THEN file_replacements + count
                      ELSE file_replacements,
                      hv, ord, i + 1)

\* a mutation of ShouldWrite: the comparison with the original text dropped
ShouldWriteAnyCount(file_replacements, replaced, content) ==
    file_replacements > 0

\* if file_replacements > 0 && replaced != content
ShouldWrite(file_replacements, replaced, content) ==
    file_replacements > 0 /\ replaced # content

\* the mapping file and the stylesheet are loaded; a canonical without a
\* variable in the stylesheet ends the run before any file is touched
ReplaceStart ==
    /\ pc = "idle"
    /\ artifacts
    /\ LET c2v == canon_to_var_of(colours_css)
       IN /\ \A c \in DOMAIN colours_map : css_hex_of(c) \in DOMAIN c2v
          /\ hex_to_var' = hex_to_var_of(colours_map, c2v)
    /\ file_idx' = 1
    /\ total_replacements' = 0
    /\ files_changed' = 0
    /\ stdout' = <<>>
    /\ report' = <<>>
    /\ pc' = "replace"
    /\ UNCHANGED <<diskVars, scanVars>>

\* one file of the glob loop, with hex_to_var iterated in an arbitrary order
ReplaceFile ==
    /\ pc = "replace"
    /\ file_idx <= NumFiles
    /\ \E ord \in Orders(DOMAIN hex_to_var) :
         LET content == files[file_idx]
             r == ApplyFrom(content, 0, hex_to_var, ord, 1)
         IN IF ShouldWrite(r.n, r.text, content)
            THEN /\ files' = [files EXCEPT ![file_idx] = r.text]
                 /\ files_changed' = files_changed + 1
                 /\ total_replacements' = total_replacements + r.n
                 /\ stdout' = Append(stdout, <<"Replaced", r.n, file_idx>>)
            ELSE UNCHANGED <<files, files_changed, total_replacements, stdout>>
    /\ file_idx' = file_idx + 1
    /\ UNCHANGED <<artifacts, colours_css, colours_map, report, pc, scanVars,
                   hex_to_var>>

\* the summary line is printed and the run ends, and its locals with it
ReplaceDone ==
    /\ pc = "replace"
    /\ file_idx > NumFiles
    /\ stdout' = Append(stdout, <<"Total", total_replacements, files_changed>>)
    /\ pc' = "idle"
    /\ hex_to_var' = <<>>
    /\ file_idx' = 1
    /\ total_replacements' = 0
    /\ files_changed' = 0
    /\ UNCHANGED <<diskVars, report, scanVars>>

Next ==
    \/ ScanFiles
    \/ ClusterStep
    \/ EmitArtifacts
    \/ Report
    \/ ReplaceStart
    \/ ReplaceFile
    \/ ReplaceDone

\* both commands, run any number of times in any order
Spec == Init /\ [][Next]_vars

\* the scan command only, run any number of times on an unchanged corpus
NextScan ==
    \/ ScanFiles
    \/ ClusterStep
    \/ EmitArtifacts
    \/ Report

SpecScan == InitScan /\ [][NextScan]_vars

(***************************************************************************)
(* Vocabulary of the properties.                                           *)
(***************************************************************************)
\* the Lab colour of a clustered literal
LabOfHex(hex) == LabOf(ScanRgb(hex))

\* the position of a literal in the enumeration of the clustering loop
PosOf(hex) == CHOOSE i \in 1..Len(visited) : visited[i] = hex

\* the positions of a text where a literal of the mapping hv occurs, in any
\* letter case
MappedAt(text, hv) ==
    {i \in 1..Len(text) : \E hex \in DOMAIN hv : OccursAtNoCase(text, hex, i)}

\* the step of the replace command that processes the file f
ProcessesFile(f) == pc = "replace" /\ file_idx = f /\ file_idx' = f + 1

\* the hex colour tokens of a text that are no literal of the mapping hv
UnmappedTokens(text, hv) ==
    SelectSeq(find_iter(text), LAMBDA t : to_lowercase(t) \notin DOMAIN hv)

\* the variables defined by the lines of a stylesheet, in line order
DefinedVars(css) ==
    LET P == [i \in 1..Len(css) |-> ParseCssLine(css[i])]
    IN SelectSeq(P, LAMBDA d : d.some)

(***************************************************************************)
(* C1. Replace phase: a file that holds an occurrence, in any letter case, *)
(* of a literal of the mapping is rewritten on disk by the run, and no     *)
(* occurrence of a mapped literal is left in it.                           *)
(***************************************************************************)
C1_OccurrencesReplaced ==
    [][\A f \in 1..NumFiles :
          (ProcessesFile(f) /\ MappedAt(files[f], hex_to_var) # {})
          => (files'[f] # files[f] /\ MappedAt(files'[f], hex_to_var) = {})]_vars

(***************************************************************************)
(* C2. Replace phase: the count printed for a file is the number of        *)
(* occurrences of mapped literals in the original text, each occurrence    *)
(* counted once, whatever the processing order of the literals.            *)
(***************************************************************************)
C2_CountIsOccurrences ==
    [][\A f \in 1..NumFiles :
          (ProcessesFile(f) /\ Len(stdout') > Len(stdout))
          => stdout'[Len(stdout')][2] = Cardinality(MappedAt(files[f], hex_to_var))]_vars

(***************************************************************************)
(* C3. Scan phase: a scan of a corpus that an earlier scan has already     *)
(* clustered writes the same stylesheet (same canonicals, same line        *)
(* order) and the same mapping (same membership) again.                    *)
(***************************************************************************)
C3_ScanDeterministic ==
    [][(pc = "cluster" /\ pc' = "report" /\ artifacts)
       => (colours_css' = colours_css /\ colours_map' = colours_map)]_vars

(***************************************************************************)
(* C4. Clustering: two clustered literals whose perceptual distance is at  *)
(* least the threshold are in different clusters, whatever the enumeration *)
(* order.                                                                  *)
(***************************************************************************)
C4_FarLiteralsApart ==
    \A h1, h2 \in DOMAIN hex_to_canonical :
        ~Within(LabOfHex(h1), LabOfHex(h2))
        => hex_to_canonical[h1] # hex_to_canonical[h2]

(***************************************************************************)
(* C5. Clustering: when L1 is enumerated before L2 and their perceptual    *)
(* distance is below the threshold, L2 does not become a canonical: it is  *)
(* in the cluster of L1, or in a cluster created before L2 was processed   *)
(* whose canonical is within the threshold of L2.                          *)
(***************************************************************************)
\* the statement for the pair (L1, L2)
JoinsEarlier(L1, L2) ==
    /\ hex_to_canonical[L2] # L2
    /\ \/ hex_to_canonical[L2] = hex_to_canonical[L1]
       \/ /\ PosOf(hex_to_canonical[L2]) < PosOf(L2)
          /\ Within(LabOfHex(hex_to_canonical[L2]), LabOfHex(L2))

\* C5 as claimed: also for an L1 that is a non-canonical member
C5_NearJoinsAnyMember ==
    \A L1, L2 \in DOMAIN hex_to_canonical :
        (PosOf(L1) < PosOf(L2) /\ Within(LabOfHex(L1), LabOfHex(L2)))
        => JoinsEarlier(L1, L2)

\* C5 as amended: for an L1 that is the canonical of its cluster, L2 does
\* not become a canonical and lies within the threshold of the canonical of
\* the cluster it is assigned to
C5_NearJoinsCanonical ==
    \A L1, L2 \in DOMAIN hex_to_canonical :
        (/\ PosOf(L1) < PosOf(L2)
         /\ hex_to_canonical[L1] = L1
         /\ Within(LabOfHex(L1), LabOfHex(L2)))
        => /\ JoinsEarlier(L1, L2)
           /\ Within(LabOfHex(hex_to_canonical[L2]), LabOfHex(L2))

\* a literal has joined the cluster of a canonical enumerated before it,
\* with a third cluster created in between
C5_Witness ==
    \E L1, L2 \in DOMAIN hex_to_canonical :
        /\ PosOf(L1) < PosOf(L2)
        /\ hex_to_canonical[L1] = L1
        /\ Within(LabOfHex(L1), LabOfHex(L2))
        /\ hex_to_canonical[L2] = L1
        /\ Len(clusters) > 1
        /\ clusters[Len(clusters)].hex # L1
        /\ PosOf(clusters[Len(clusters)].hex) < PosOf(L2)

(***************************************************************************)
(* C6. Every literal the scan captured and the clustering loop has passed  *)
(* is in exactly one cluster, and is a member in the mapping file once     *)
(* that is written; a literal of 8 digits too.                             *)
(***************************************************************************)
C6_EveryLiteralClustered ==
    \A hex \in Range(visited) :
        /\ hex \in DOMAIN hex_to_canonical
        /\ (pc = "report" => \E c \in DOMAIN colours_map : hex \in colours_map[c])

(***************************************************************************)
(* C7. Replace phase: the rewritten text of a file is the same for every   *)
(* processing order of the literals of the mapping.                        *)
(***************************************************************************)
C7_OrderIndependent ==
    (pc = "replace" /\ file_idx <= NumFiles)
    => \A o1, o2 \in Orders(DOMAIN hex_to_var) :
           ApplyFrom(files[file_idx], 0, hex_to_var, o1, 1).text
           = ApplyFrom(files[file_idx], 0, hex_to_var, o2, 1).text

(***************************************************************************)
(* C8. Replace phase: the hex colour tokens of a file that are no literal  *)
(* of the mapping are the same, character for character, after the file   *)
(* has been processed.                                                     *)
(***************************************************************************)
C8_UnmappedTokensKept ==
    [][\A f \in 1..NumFiles :
          ProcessesFile(f)
          => UnmappedTokens(files'[f], hex_to_var)
             = UnmappedTokens(files[f], hex_to_var)]_vars

(***************************************************************************)
(* C9. Replace phase: processing a file in which no literal of the mapping *)
(* occurs any more prints no count for it, adds nothing to the total nor   *)
(* to the number of changed files, and leaves the file as it is.           *)
(***************************************************************************)
C9_Idempotent ==
    [][\A f \in 1..NumFiles :
          (ProcessesFile(f) /\ MappedAt(files[f], hex_to_var) = {})
          => /\ files' = files
             /\ stdout' = stdout
             /\ total_replacements' = total_replacements
             /\ files_changed' = files_changed]_vars

\* a run has processed, without printing a count, a file that an earlier run
\* had rewritten: it holds a reference to a mapped variable and no literal
C9_Witness ==
    /\ pc = "replace"
    /\ file_idx > 1
    /\ stdout = <<>>
    /\ \E hex \in DOMAIN hex_to_var :
           matches_count(files[1], VarRef(hex_to_var[hex])) > 0
    /\ MappedAt(files[1], hex_to_var) = {}

(***************************************************************************)
(* C10. Scan phase: the variables the stylesheet defines are pairwise      *)
(* distinct: no two clusters get the same --color-<name>.                  *)
(***************************************************************************)
C10_DistinctVars ==
    LET D == DefinedVars(colours_css)
    IN \A i, j \in 1..Len(D) : D[i].var = D[j].var => i = j

====
